---- MODULE Spec2Model ----
(***************************************************************************)
(* The data acquisition layer of the stock market dashboard:               *)
(* fetch_stock_data (cache check, rate-limited HTTP client, normalizer,   *)
(* SQLite upsert) and its caller on_refresh_clicked.                       *)
(*                                                                         *)
(* A date string is modelled as <<day, suffix>>: day is the calendar day   *)
(* number and suffix the text after 'YYYY-MM-DD' ("" for strftime's        *)
(* output, " 00:00:00" for the text the sqlite3 datetime adapter writes).  *)
(* Strings compare lexicographically, as SQLite's BETWEEN on TEXT does.    *)
(***************************************************************************)
EXTENDS Integers, Sequences, FiniteSets, TLC

\* ---- bounds of the model -------------------------------------------------
MaxDay == 3
MaxClicks == 2

\* ---- program constants ---------------------------------------------------
MaxAttempts == 3
SleepSeconds == 60

Days == 1..MaxDay
Vals == {1, 2}

\* Symbols are strings, modelled as tuples of characters.
AAPL == <<"A", "A", "P", "L">>
BTC_USD == <<"B", "T", "C", "-", "U", "S", "D">>
\* DEFAULT_SYMBOLS, the options of the selector (two of the seven)
DEFAULT_SYMBOLS == <<AAPL, BTC_USD>>

Options == {DEFAULT_SYMBOLS[k] : k \in 1..Len(DEFAULT_SYMBOLS)}

VARIABLES
    cache,        \* rows of table stock_data visible on conn
    pc,           \* position of the program: "idle", "loop", "request", "after"
    symbols,      \* argument of fetch_stock_data
    start_date,   \* argument of fetch_stock_data
    end_date,     \* argument of fetch_stock_data
    i,            \* 1-based position of the for loop in symbols
    all_data,     \* dict symbol -> DataFrame (a set of rows)
    url,          \* the request url of the current symbol
    attempt,      \* number of completed iterations of the retry loop
    data,         \* the last decoded response body
    requests,     \* per symbol: calls of requests.get in this call
    sleeps,       \* per symbol: the seconds of each time.sleep in this call
    notes,        \* the calls of handle_error since fetch_stock_data was last entered
    result,       \* return value of the last fetch_stock_data call
    before,       \* the cache when the current symbol's iteration began
    clicks        \* number of clicks on the refresh button so far

vars == <<cache, pc, symbols, start_date, end_date, i, all_data, url, attempt,
          data, requests, sleeps, notes, result, before, clicks>>

\* ---- strings and dates ---------------------------------------------------

\* start_date.strftime('%Y-%m-%d')
strftime(d) == <<d, "">>

\* what the sqlite3 adapter stores for a datetime at midnight: isoformat(" ")
adapt_datetime(d) == <<d, " 00:00:00">>

\* lexicographic order on date strings of the two shapes above
StrLE(a, b) == a[1] < b[1] \/ (a[1] = b[1] /\ (a[2] = "" \/ a[2] = b[2]))

\* sub occurs in s as a contiguous substring ('USD' in symbol)
Contains(s, sub) ==
    \E k \in 0..(Len(s) - Len(sub)) : SubSeq(s, k + 1, k + Len(sub)) = sub

\* symbol.replace(old, new): every occurrence, left to right
RECURSIVE Replace(_, _, _)
Replace(s, old, new) ==
    IF Len(s) < Len(old) THEN s
    ELSE IF SubSeq(s, 1, Len(old)) = old
         THEN new \o Replace(SubSeq(s, Len(old) + 1, Len(s)), old, new)
         ELSE <<Head(s)>> \o Replace(Tail(s), old, new)

\* ---- the remote API ------------------------------------------------------

\* Message texts, as tuples of words.
MsgRate == <<"visit", "alphavantage", "Premium">>
MsgPlain == <<"Invalid", "API", "call">>
NoMsg == <<>>
Messages == {MsgRate, MsgPlain}

\* str.lower() on a word
lower(w) == IF w \in {"Premium", "PREMIUM", "premium"} THEN "premium" ELSE w

\* "premium" in msg.lower()
HasPremium(msg) == \E k \in 1..Len(msg) : lower(msg[k]) = "premium"

\* the days of S, newest first: the order of the API's time series
RECURSIVE Descending(_)
Descending(S) ==
    IF S = {} THEN <<>>
    ELSE LET m == CHOOSE x \in S : \A y \in S : y <= x
         IN <<m>> \o Descending(S \ {m})

\* the entries of a time series: one value v for all fields of all its days
Series(S, v) == [k \in 1..Cardinality(S) |-> [day |-> Descending(S)[k], val |-> v]]

\* the day sets of the payloads: no entry, every day, the newest day only
SeriesDays == {{}, Days, {MaxDay}}

AllSeries == {Series(S, v) : S \in SeriesDays, v \in Vals}

\* A decoded response body.  raised: requests.get or response.json() raised.
\* series: a key containing 'Time Series' or 'Digital Currency' is present.
\* numeric: every field of every entry is a number pd.to_numeric accepts.
\* failAt: the entry at which executemany raises (0: at none), e.g. an
\* unmapped column (1: the statement is rejected) or an integer too large
\* for SQLite in that entry.
Body(raised, hasNote, note, hasErr, err, series, rows, numeric, failAt) ==
    [raised |-> raised, hasNote |-> hasNote, note |-> note, hasErr |-> hasErr,
     err |-> err, series |-> series, rows |-> rows, numeric |-> numeric,
     failAt |-> failAt]

NoData == Body(FALSE, FALSE, NoMsg, FALSE, NoMsg, FALSE, <<>>, TRUE, 0)

Raised == Body(TRUE, FALSE, NoMsg, FALSE, NoMsg, FALSE, <<>>, TRUE, 0)

SignalBodies ==
    {Body(FALSE, TRUE, n, FALSE, NoMsg, FALSE, <<>>, TRUE, 0) : n \in Messages}
    \cup {Body(FALSE, FALSE, NoMsg, TRUE, e, FALSE, <<>>, TRUE, 0) : e \in Messages}
    \cup {Body(FALSE, TRUE, MsgPlain, TRUE, MsgRate, FALSE, <<>>, TRUE, 0)}

GoodBodies ==
    {Body(FALSE, FALSE, NoMsg, FALSE, NoMsg, TRUE, q, TRUE, 0) : q \in AllSeries}

\* no matching key, a value that is no number, a write that raises
BadBodies ==
    {Body(FALSE, FALSE, NoMsg, FALSE, NoMsg, FALSE, <<>>, TRUE, 0)}
    \cup {Body(FALSE, FALSE, NoMsg, FALSE, NoMsg, TRUE, q, FALSE, 0) :
              q \in {Series(Days, 1)}}
    \cup {Body(FALSE, FALSE, NoMsg, FALSE, NoMsg, TRUE, q, TRUE, k) :
              q \in {Series(Days, 2)}, k \in {1, MaxDay}}

Responses == {Raised} \cup SignalBodies \cup GoodBodies \cup BadBodies

\* "Note" in data or "Error Message" in data
HasSignal(d) == d.hasNote \/ d.hasErr

\* the message looked up under "Error Message" first
MsgErrorFirst(d) == IF d.hasErr THEN d.err ELSE d.note

\* data.get("Note", data.get("Error Message", "Unknown API issue."))
Msg(d) == IF d.hasNote THEN d.note ELSE d.err

\* ---- symbol classification and the request url ---------------------------

Url(func, sym, market, outputsize) ==
    [function |-> func, symbol |-> sym, market |-> market,
     outputsize |-> outputsize]

NoUrl == Url("", <<>>, "", "")

\* the classification that looks for 'EUR' before 'USD'
BuildUrlEurFirst(symbol) ==
    IF Contains(symbol, <<"U", "S", "D">>) \/ Contains(symbol, <<"E", "U", "R">>)
    THEN Url(IF Contains(symbol, <<"E", "U", "R">>)
             THEN "FX_DAILY" ELSE "DIGITAL_CURRENCY_DAILY",
             Replace(symbol, <<"-", "U", "S", "D">>, <<>>), "USD", "")
    ELSE Url("TIME_SERIES_DAILY_ADJUSTED", symbol, "", "full")

\* lines 262-267: the function and the parameters of the request
BuildUrl(symbol) ==
    IF Contains(symbol, <<"U", "S", "D">>) \/ Contains(symbol, <<"E", "U", "R">>)
    THEN Url(IF Contains(symbol, <<"U", "S", "D">>)
             THEN "DIGITAL_CURRENCY_DAILY" ELSE "FX_DAILY",
             Replace(symbol, <<"-", "U", "S", "D">>, <<>>), "USD", "")
    ELSE Url("TIME_SERIES_DAILY_ADJUSTED", symbol, "", "full")

\* ---- the cache table stock_data and DataFrames ---------------------------

\* a row of stock_data or of a DataFrame; date is the key or the index value
Row(symbol, date, val) == [symbol |-> symbol, date |-> date, val |-> val]

\* pd.to_datetime of the date string of day d: a Timestamp at midnight
Timestamp(d) == <<d, "Timestamp">>

\* SELECT * FROM stock_data WHERE symbol = '..' AND date BETWEEN '..' AND '..'
read_sql(tbl, symbol, start_str, end_str) ==
    {r \in tbl : r.symbol = symbol /\ StrLE(start_str, r.date) /\ StrLE(r.date, end_str)}

\* all(d.strftime('%Y-%m-%d') in cached_df.index for d in date_range)
CacheComplete(cached_df, start, end) ==
    \A d \in start..end : \E r \in cached_df : r.date = strftime(d)

\* the DataFrame built from the time series of the payload, in its order
DataFrame(symbol, rows) ==
    [k \in 1..Len(rows) |-> Row(symbol, Timestamp(rows[k].day), rows[k].val)]

\* INSERT of one row into a table without a key
InsertAppend(tbl, row) == tbl \cup {row}

\* the insert into a table that is replaced by the batch (if_exists='replace')
InsertReplacingTable(tbl, row) == {row}

\* INSERT OR REPLACE of one row under PRIMARY KEY (symbol, date)
InsertOrReplace(tbl, row) ==
    {r \in tbl : ~(r.symbol = row.symbol /\ r.date = row.date)} \cup {row}

\* cursor.executemany over the first n rows of df, in order
RECURSIVE executemany(_, _, _)
executemany(tbl, df, n) ==
    IF n = 0 THEN tbl
    ELSE InsertOrReplace(executemany(tbl, df, n - 1),
                         Row(df[n].symbol, adapt_datetime(df[n].date[1]), df[n].val))

\* df.to_sql(..., method=...) and conn.commit(): pandas runs the insert method
\* in a transaction of conn that it commits, or rolls back when the method
\* raises; failAt is the row at which executemany raises (0: none).
rollback(committed, dirty) == committed

\* the write left out: nothing is stored and nothing is raised
to_sql_discard(tbl, df, failAt) == [raised |-> FALSE, table |-> tbl]

\* the insert method without the enclosing transaction: the rows written
\* before the failure stay
to_sql_no_rollback(tbl, df, failAt) ==
    IF failAt = 0 \/ failAt > Len(df)
    THEN [raised |-> FALSE, table |-> executemany(tbl, df, Len(df))]
    ELSE [raised |-> TRUE, table |-> executemany(tbl, df, failAt - 1)]

to_sql(tbl, df, failAt) ==
    IF failAt = 0 \/ failAt > Len(df)
    THEN [raised |-> FALSE, table |-> executemany(tbl, df, Len(df))]
    ELSE [raised |-> TRUE,
          table |-> rollback(tbl, executemany(tbl, df, failAt - 1))]

\* the DataFrame without the filter: every row of the payload
InRangeAll(df, start, end) == {df[k] : k \in 1..Len(df)}

\* df[(df.index >= start_str) & (df.index <= end_str)]
InRange(df, start, end) ==
    {df[k] : k \in {j \in 1..Len(df) : start <= df[j].date[1] /\ df[j].date[1] <= end}}

\* all_data[symbol] = rows
Put(f, k, v) == [x \in DOMAIN f \cup {k} |-> IF x = k THEN v ELSE f[x]]

EmptyDict == [x \in {} |-> {}]

\* pd.concat(all_data.values())
concat(d) == UNION {d[s] : s \in DOMAIN d}

\* ---- the notification sink and the return value --------------------------

\* one call of handle_error: the symbol and the cause its message names
Notice(symbol, cause) == [symbol |-> symbol, cause |-> cause]

\* the exception that processing the payload d raises, "" when none does:
\* next() finds no series key, pd.to_numeric rejects a value, executemany
\* rejects the statement (at the first row) or a value (at a later row)
ExceptionOf(d) ==
    IF ~d.series THEN "StopIteration"
    ELSE IF ~d.numeric THEN "ValueError"
    ELSE IF d.failAt = 0 \/ d.failAt > Len(d.rows) THEN ""
    ELSE IF d.failAt = 1 THEN "OperationalError"
    ELSE "OverflowError"

\* the retry loop with one iteration more
LoopContinuesOnceMore(a) == a < MaxAttempts

\* "for attempt in range(3)": another iteration follows the one numbered attempt
LoopContinues(a) == a + 1 < MaxAttempts

Pending == [kind |-> "pending", table |-> {}]
None == [kind |-> "None", table |-> {}]
Table(t) == [kind |-> "DataFrame", table |-> t]

\* ---- initial state -------------------------------------------------------

\* The table is created only if stocks.db does not hold it already: the rows
\* found at start-up are the rows of an earlier session.  They are keyed by
\* plain dates here, one row per key (the PRIMARY KEY of the table).
StoredRows(f) ==
    UNION {{Row(s, strftime(d), 1) : d \in f[s]} : s \in DOMAIN f}

\* per symbol: no row, or a row for every day but the last
InitDays == {{}, Days \ {MaxDay}}

InitCaches == {StoredRows(f) : f \in [Options -> InitDays]}

Zero == [s \in Options |-> 0]

NoSleep == [s \in Options |-> <<>>]

Init ==
    /\ cache \in InitCaches
    /\ pc = "idle"
    /\ symbols = <<>>
    /\ start_date = 1
    /\ end_date = 1
    /\ i = 1
    /\ all_data = EmptyDict
    /\ url = NoUrl
    /\ attempt = 0
    /\ data = NoData
    /\ requests = Zero
    /\ sleeps = NoSleep
    /\ notes = <<>>
    /\ result = Pending
    /\ before = cache
    /\ clicks = 0

\* ---- on_refresh_clicked and the entry of fetch_stock_data ----------------

\* the options at the positions of P, in the order of the options
RECURSIVE Selected(_, _)
Selected(P, k) ==
    IF k > Len(DEFAULT_SYMBOLS) THEN <<>>
    ELSE (IF k \in P THEN <<DEFAULT_SYMBOLS[k]>> ELSE <<>>) \o Selected(P, k + 1)

\* list(symbol_selector.value): the selected options, in the order of the options
Selections == {Selected(P, 1) : P \in SUBSET (1..Len(DEFAULT_SYMBOLS))}

\* the handler without its two checks: every click calls fetch_stock_data
on_refresh_clicked_unchecked ==
    /\ pc = "idle"
    /\ clicks < MaxClicks
    /\ clicks' = clicks + 1
    /\ \E sel \in Selections, s \in Days, e \in Days :
        /\ symbols' = sel
        /\ start_date' = s
        /\ end_date' = e
        /\ all_data' = EmptyDict
        /\ i' = 1
        /\ pc' = "loop"
        /\ url' = NoUrl
        /\ attempt' = 0
        /\ data' = NoData
        /\ requests' = Zero
        /\ sleeps' = NoSleep
        /\ notes' = <<>>
        /\ result' = Pending
        /\ before' = cache
        /\ UNCHANGED cache

on_refresh_clicked ==
    /\ pc = "idle"
    /\ clicks < MaxClicks
    /\ clicks' = clicks + 1
    /\ \E sel \in Selections, s \in Days, e \in Days :
        IF sel = <<>>
        THEN /\ notes' = Append(notes, Notice(<<>>, "no symbol selected"))
             /\ UNCHANGED <<cache, pc, symbols, start_date, end_date, i, all_data,
                            url, attempt, data, requests, sleeps, result, before>>
        ELSE IF s >= e
        THEN /\ notes' = Append(notes, Notice(<<>>, "start date not before end date"))
             /\ UNCHANGED <<cache, pc, symbols, start_date, end_date, i, all_data,
                            url, attempt, data, requests, sleeps, result, before>>
        ELSE /\ symbols' = sel
             /\ start_date' = s
             /\ end_date' = e
             /\ all_data' = EmptyDict
             /\ i' = 1
             /\ pc' = "loop"
             /\ url' = NoUrl
             /\ attempt' = 0
             /\ data' = NoData
             /\ requests' = Zero
             /\ sleeps' = NoSleep
             /\ notes' = <<>>
             /\ result' = Pending
             /\ before' = cache
             /\ UNCHANGED cache

\* ---- fetch_stock_data: one iteration of the for loop ---------------------

\* the for loop leaves out the symbol after the current one
ContinueSkip ==
    /\ pc' = "loop"
    /\ i' = i + 2

\* "continue": the for loop goes on with the next symbol
Continue ==
    /\ pc' = "loop"
    /\ i' = i + 1

\* the handler abandons the call instead of going on with the next symbol
OnExceptionAbort(symbol, e) ==
    /\ notes' = Append(notes, Notice(symbol, e))
    /\ pc' = "idle"
    /\ i' = i

\* "except Exception as e": one notification, then the next symbol
OnException(symbol, e) ==
    /\ notes' = Append(notes, Notice(symbol, e))
    /\ Continue

\* the cache check at the top of the try block; on a miss, the url is built
CheckCache ==
    /\ pc = "loop"
    /\ i <= Len(symbols)
    /\ LET symbol == symbols[i]
           cached_df == read_sql(cache, symbol, strftime(start_date), strftime(end_date))
       IN  /\ before' = cache
           /\ IF CacheComplete(cached_df, start_date, end_date)
              THEN /\ all_data' = Put(all_data, symbol, cached_df)
                   /\ i' = i + 1
                   /\ UNCHANGED <<pc, url, attempt>>
              ELSE /\ url' = BuildUrl(symbol)
                   /\ attempt' = 0
                   /\ pc' = "request"
                   /\ UNCHANGED <<all_data, i>>
    /\ UNCHANGED <<cache, symbols, start_date, end_date, data, requests, sleeps,
                   notes, result, clicks>>

\* the hard error handled like a rate limit without a sleep: "continue"
OnHardErrorRetry(symbol, msg) ==
    /\ notes' = Append(notes, Notice(symbol, "API error"))
    /\ attempt' = attempt + 1
    /\ pc' = IF LoopContinues(attempt) THEN "request" ELSE "after"
    /\ UNCHANGED sleeps

\* the rate limit handled without a notification
OnRateLimitSilent(symbol, msg) ==
    /\ notes' = notes
    /\ sleeps' = [sleeps EXCEPT ![symbol] = Append(@, SleepSeconds)]
    /\ attempt' = attempt + 1
    /\ pc' = IF LoopContinues(attempt) THEN "request" ELSE "after"

\* the rate limit handled with "break": notification, sleep, no further attempt
OnRateLimitBreak(symbol, msg) ==
    /\ notes' = Append(notes, Notice(symbol, "rate limit"))
    /\ sleeps' = [sleeps EXCEPT ![symbol] = Append(@, SleepSeconds)]
    /\ attempt' = attempt + 1
    /\ pc' = "after"

\* "premium" in the message: notification, sleep, "continue"
OnRateLimit(symbol, msg) ==
    /\ notes' = Append(notes, Notice(symbol, "rate limit"))
    /\ sleeps' = [sleeps EXCEPT ![symbol] = Append(@, SleepSeconds)]
    /\ attempt' = attempt + 1
    /\ pc' = IF LoopContinues(attempt) THEN "request" ELSE "after"

\* any other signal: notification, "break"
OnHardError(symbol, msg) ==
    /\ notes' = Append(notes, Notice(symbol, "API error"))
    /\ pc' = "after"
    /\ UNCHANGED <<sleeps, attempt>>

\* one iteration of "for attempt in range(3)": the request and its checks
Request ==
    /\ pc = "request"
    /\ LET symbol == symbols[i]
       IN \E r \in Responses :
           /\ requests' = [requests EXCEPT ![symbol] = @ + 1]
           /\ IF r.raised
              THEN \* except Exception: handle_error, continue with next symbol
                   /\ OnException(symbol, "ConnectionError")
                   /\ data' = NoData
                   /\ url' = NoUrl
                   /\ attempt' = 0
                   /\ UNCHANGED sleeps
              ELSE /\ data' = r
                   /\ UNCHANGED <<i, url>>
                   /\ IF HasSignal(r)
                      THEN IF HasPremium(Msg(r))
                           THEN OnRateLimit(symbol, Msg(r))
                           ELSE OnHardError(symbol, Msg(r))
                      ELSE /\ pc' = "after"
                           /\ UNCHANGED <<notes, sleeps, attempt>>
    /\ UNCHANGED <<cache, symbols, start_date, end_date, all_data, result,
                   before, clicks>>

\* after the retry loop: skip on a signal, else normalize, upsert, slice.
\* data, url and attempt are assigned before they are read in the next
\* iteration: their old values are dead and are dropped here.
Process ==
    /\ pc = "after"
    /\ data' = NoData
    /\ url' = NoUrl
    /\ attempt' = 0
    /\ LET symbol == symbols[i]
       IN IF HasSignal(data)
          THEN /\ Continue
               /\ UNCHANGED <<cache, all_data, notes>>
          ELSE IF ~data.series \/ ~data.numeric
          THEN /\ OnException(symbol, ExceptionOf(data))
               /\ UNCHANGED <<cache, all_data>>
          ELSE LET df == DataFrame(symbol, data.rows)
                   w == to_sql(cache, df, data.failAt)
               IN /\ cache' = w.table
                  /\ IF w.raised
                     THEN /\ OnException(symbol, ExceptionOf(data))
                          /\ UNCHANGED all_data
                     ELSE /\ all_data' = Put(all_data, symbol,
                                             InRange(df, start_date, end_date))
                          /\ Continue
                          /\ UNCHANGED notes
    /\ UNCHANGED <<symbols, start_date, end_date, requests, sleeps, result,
                   before, clicks>>

\* the batch yields no table when the table would hold no row
NoDataWhenEmpty(d) == concat(d) = {}

\* "if not all_data"
NoDataAvailable(d) == DOMAIN d = {}

\* after the for loop: the batch result
Return ==
    /\ pc = "loop"
    /\ i > Len(symbols)
    /\ pc' = "idle"
    /\ IF NoDataAvailable(all_data)
       THEN /\ notes' = Append(notes, Notice(<<>>, "no data"))
            /\ result' = None
       ELSE /\ result' = Table(concat(all_data))
            /\ UNCHANGED notes
    /\ UNCHANGED <<cache, symbols, start_date, end_date, i, all_data, url, attempt,
                   data, requests, sleeps, before, clicks>>

Next == on_refresh_clicked \/ CheckCache \/ Request \/ Process \/ Return

Spec == Init /\ [][Next]_vars

\* The statements of fetch_stock_data run one after the other: a step of the
\* program that can be taken is taken.  A request is answered by the remote
\* API: requests.get is called without a timeout, so nothing in the program
\* makes the step of a request happen.
FairSpec ==
    Spec /\ WF_vars(CheckCache) /\ WF_vars(Process) /\ WF_vars(Return)

\* ---- fetch_stock_data called with any symbol ------------------------------

\* parts of symbol strings
Pieces ==
    {<<>>, <<"U", "S", "D">>, <<"E", "U", "R">>, <<"-", "U", "S", "D">>,
     <<"A">>, <<"-">>, <<"u", "s", "d">>}

\* the symbol strings: up to three parts in a row
SymbolStrings == {p \o q \o r : p \in Pieces, q \in Pieces, r \in Pieces} \ {<<>>}

\* the entry of fetch_stock_data with one symbol, on an empty cache
InitClassify ==
    /\ cache = {}
    /\ pc = "loop"
    /\ \E s \in SymbolStrings :
          /\ symbols = <<s>>
          /\ requests = [x \in {s} |-> 0]
          /\ sleeps = [x \in {s} |-> <<>>]
    /\ start_date = 1
    /\ end_date = MaxDay
    /\ i = 1
    /\ all_data = EmptyDict
    /\ url = NoUrl
    /\ attempt = 0
    /\ data = NoData
    /\ notes = <<>>
    /\ result = Pending
    /\ before = cache
    /\ clicks = 0

NextClassify == CheckCache \/ Request \/ Process \/ Return

SpecClassify == InitClassify /\ [][NextClassify]_vars

\* ---- vocabulary of the properties ----------------------------------------

\* fetch_stock_data has been called at least once
Started == symbols # <<>>

\* the last call of fetch_stock_data has returned
Returned == pc = "idle" /\ Started

\* the symbol at position k of the list has been processed
Processed(k) == k < i

\* s is a success in the dict d
SucceededIn(d, s) == s \in DOMAIN d

Succeeded(s) == SucceededIn(all_data, s)

\* some notification of the sequence ns names the symbol s
NotifiedIn(ns, s) == \E n \in 1..Len(ns) : ns[n].symbol = s

Notified(s) == NotifiedIn(notes, s)

\* the number of notifications that name s with the cause c
Count(s, c) == Cardinality({n \in 1..Len(notes) : notes[n] = Notice(s, c)})

\* a payload that carries no signal and that processing accepts
Valid(d) == ~d.raised /\ ~HasSignal(d) /\ ExceptionOf(d) = ""

\* ---- C1 ------------------------------------------------------------------
\* C1: fetch_stock_data never raises and never stops early: whatever the
\* outcome of a symbol, the loop goes on with the next one and the call
\* returns a value after the last; a symbol whose final payload is valid is
\* recorded as a success, and every processed symbol that is no success has
\* been notified with its cause.
PartialFailureState ==
    /\ Returned => (result.kind # "pending" /\ i = Len(symbols) + 1)
    /\ \A k \in 1..Len(symbols) :
          Processed(k) => (Succeeded(symbols[k]) \/ Notified(symbols[k]))

PartialFailureStep ==
    /\ (pc \in {"request", "after"} /\ pc' \notin {"request", "after"})
          => (pc' = "loop" /\ i' = i + 1 /\ i <= Len(symbols))
    /\ (pc = "after" /\ Valid(data)) => SucceededIn(all_data', symbols[i])
    /\ (pc = "after" /\ ~Valid(data))
          => (~SucceededIn(all_data', symbols[i]) /\ NotifiedIn(notes', symbols[i]))

PartialFailure == [](PartialFailureState) /\ [][PartialFailureStep]_vars

\* a failed symbol is followed by a symbol fetched with success, and the
\* call has returned
PartialFailureWitness ==
    /\ Returned
    /\ Len(symbols) = 2
    /\ ~Succeeded(symbols[1])
    /\ Count(symbols[1], "OverflowError") = 1
    /\ Succeeded(symbols[2])
    /\ requests[symbols[2]] = 1
    /\ result.kind = "DataFrame"

\* ---- C2 ------------------------------------------------------------------
\* the symbols that occur in the rows of a table
SymbolsOf(t) == {r.symbol : r \in t}

\* the call ended with the hard failure: None and one no-data notification
HardFailure ==
    /\ result = None
    /\ Count(<<>>, "no data") = 1

\* C2 as stated: None (with its notification) exactly when no symbol
\* succeeded, else a table that contains exactly the succeeded symbols.
BatchOutcomeAsStated ==
    Returned =>
        /\ HardFailure <=> (DOMAIN all_data = {})
        /\ ~HardFailure =>
              (result.kind = "DataFrame" /\ SymbolsOf(result.table) = DOMAIN all_data)

\* C2 (amended): None (with its notification) exactly when no symbol
\* succeeded; else a table whose rows are exactly the rows of the successes:
\* it holds no row of a failed symbol and holds every succeeded symbol that has
\* a row in the requested range (a success without one adds nothing).
BatchOutcome ==
    Returned =>
        /\ HardFailure <=> (DOMAIN all_data = {})
        /\ ~HardFailure =>
              /\ result.kind = "DataFrame"
              /\ Count(<<>>, "no data") = 0
              /\ \A r \in result.table :
                    Succeeded(r.symbol) /\ r \in all_data[r.symbol]
              /\ \A s \in DOMAIN all_data : all_data[s] \subseteq result.table

\* a returned table with the rows of the fetched symbol and none of the
\* failed one
BatchOutcomeWitness ==
    /\ Returned
    /\ Len(symbols) = 2
    /\ ~Succeeded(symbols[1])
    /\ Succeeded(symbols[2])
    /\ requests[symbols[2]] = 1
    /\ result.kind = "DataFrame"
    /\ result.table # {}
    /\ SymbolsOf(result.table) = {symbols[2]}

\* ---- C3 ------------------------------------------------------------------
\* the table holds a row of s for the calendar day d
HasRowFor(tbl, s, d) == \E r \in tbl : r.symbol = s /\ r.date[1] = d

\* the table holds a row of s for every calendar day of a..b
HoldsCompleteRange(tbl, s, a, b) == \A d \in a..b : HasRowFor(tbl, s, d)

\* the rows of s in the table for the calendar days of a..b
RowsOfRange(tbl, s, a, b) ==
    {r \in tbl : r.symbol = s /\ a <= r.date[1] /\ r.date[1] <= b}

\* C3: when the cache holds a complete range for the current symbol, its
\* iteration ends without any network request in this call, and its success
\* is the rows of that range in the cache.
CacheFirstStep ==
    (pc = "loop" /\ i <= Len(symbols)
        /\ HoldsCompleteRange(cache, symbols[i], start_date, end_date))
    => /\ pc' = "loop"
       /\ i' = i + 1
       /\ requests' = requests
       /\ requests[symbols[i]] = 0
       /\ SucceededIn(all_data', symbols[i])
       /\ all_data'[symbols[i]] = RowsOfRange(cache, symbols[i], start_date, end_date)

CacheFirst == [][CacheFirstStep]_vars

\* the range of the current symbol is held under the date keys that
\* strftime yields
ReportsCompleteRange(tbl, s, a, b) ==
    \A d \in a..b : \E r \in tbl : r.symbol = s /\ r.date = strftime(d)

\* the cache-first step as far as it holds: when every day of the range has
\* a row under its plain date key, no request is made and the success is the
\* rows between the two date keys
CacheFirstOnReportStep ==
    (pc = "loop" /\ i <= Len(symbols)
        /\ ReportsCompleteRange(cache, symbols[i], start_date, end_date))
    => /\ pc' = "loop"
       /\ i' = i + 1
       /\ requests' = requests
       /\ requests[symbols[i]] = 0
       /\ cache' = cache
       /\ SucceededIn(all_data', symbols[i])
       /\ all_data'[symbols[i]]
             = {r \in cache : /\ r.symbol = symbols[i]
                              /\ StrLE(strftime(start_date), r.date)
                              /\ StrLE(r.date, strftime(end_date))}

CacheFirstOnReport == [][CacheFirstOnReportStep]_vars

\* ---- C4 ------------------------------------------------------------------
\* the symbols of the current call whose iteration is over
Finished == {symbols[k] : k \in {j \in 1..Len(symbols) : Processed(j)}}

\* every response that s received in this call was a premium rate-limit signal
AllRateLimited(s) == requests[s] > 0 /\ Count(s, "rate limit") = requests[s]

\* C4: a symbol receives at most 3 requests in one call, whatever the API
\* answers; when every answer is a premium rate-limit signal it receives
\* exactly 3 and is no success.
RetryBound ==
    /\ \A s \in Options : requests[s] <= 3
    /\ \A s \in Finished : AllRateLimited(s) => (requests[s] = 3 /\ ~Succeeded(s))

\* a symbol that was answered by three rate-limit signals and then given up
RetryBoundWitness ==
    \E s \in Finished :
        /\ AllRateLimited(s)
        /\ requests[s] = 3
        /\ ~Succeeded(s)
        /\ pc = "loop"

\* ---- C5 ------------------------------------------------------------------
\* C5: when every response for a symbol is a premium rate-limit signal, the
\* client sleeps exactly twice, 60 seconds each, and not after the third
\* attempt.
SleepBound ==
    \A s \in Finished : AllRateLimited(s) => sleeps[s] = <<60, 60>>

\* ---- C6 ------------------------------------------------------------------
\* the words that make a message a premium rate-limit message
MentionsPremium(msg) ==
    \E k \in 1..Len(msg) : msg[k] \in {"premium", "Premium", "PREMIUM"}

\* the text the client reads from a signal: the Note when there is one
SignalText(d) == IF d.hasNote THEN d.note ELSE d.err

\* an error signal that is no premium rate-limit case
HardSignal(d) == (d.hasNote \/ d.hasErr) /\ ~MentionsPremium(SignalText(d))

SoftSignal(d) == (d.hasNote \/ d.hasErr) /\ MentionsPremium(SignalText(d))

\* C6: a response with a hard signal ends the retry loop at once, without a
\* sleep and with one notification; the symbol then is no success, nothing is
\* requested or written for it, and the loop goes on with the next symbol.
HardErrorStep ==
    /\ (pc = "request" /\ HardSignal(data'))
          => /\ pc' = "after"
             /\ sleeps' = sleeps
             /\ cache' = cache
             /\ notes' = Append(notes, Notice(symbols[i], "API error"))
    /\ (pc = "after" /\ HardSignal(data))
          => /\ pc' = "loop"
             /\ i' = i + 1
             /\ requests' = requests
             /\ sleeps' = sleeps
             /\ cache' = cache
             /\ notes' = notes
             /\ ~SucceededIn(all_data', symbols[i])

HardErrorAborts == [][HardErrorStep]_vars

\* the first symbol got one response, a hard error, and the loop has moved
\* on to the second
HardErrorWitness ==
    /\ pc = "loop"
    /\ i = 2
    /\ Len(symbols) = 2
    /\ requests[symbols[1]] = 1
    /\ sleeps[symbols[1]] = <<>>
    /\ Count(symbols[1], "API error") = 1
    /\ ~Succeeded(symbols[1])
    /\ cache = before

\* ---- C7 ------------------------------------------------------------------
\* the step retries: a sleep of 60 seconds, then another attempt if one remains
Retries ==
    /\ sleeps'[symbols[i]] = Append(sleeps[symbols[i]], 60)
    /\ attempt' = attempt + 1
    /\ attempt + 1 < 3 => pc' = "request"
    /\ attempt + 1 >= 3 => pc' = "after"

\* the step gives the symbol up without a sleep
Aborts ==
    /\ sleeps' = sleeps
    /\ pc' = "after"

\* C7 as stated: the key decides: "Error Message" is never retried, whatever
\* its text, and "Note" is retried.
KeyPolicyStep ==
    /\ (pc = "request" /\ data'.hasErr /\ ~data'.hasNote) => Aborts
    /\ (pc = "request" /\ data'.hasNote /\ ~data'.hasErr) => Retries

KeyPolicy == [][KeyPolicyStep]_vars

\* C7 (amended): the text decides: a response with a signal is retried exactly
\* when its message (the Note when there is one, else the Error Message)
\* mentions "premium", whatever the key.
TextPolicyStep ==
    /\ (pc = "request" /\ SoftSignal(data')) => Retries
    /\ (pc = "request" /\ HardSignal(data')) => Aborts

TextPolicy == [][TextPolicyStep]_vars

\* an Error Message that mentions premium has been retried
TextPolicyWitness ==
    /\ pc = "request"
    /\ attempt = 1
    /\ data.hasErr /\ ~data.hasNote
    /\ sleeps[symbols[i]] = <<60>>

\* ---- C8 ------------------------------------------------------------------
\* the iteration of the current symbol took the cache path
TreatedAsComplete == pc' = "loop" /\ i' = i + 1 /\ requests' = requests

\* the iteration of the current symbol goes to the network
ForcesFetch == pc' = "request" /\ i' = i

\* C8: the cache is treated as complete for the current symbol and range
\* exactly when every calendar day of the range has a stored row of the
\* symbol; one missing day forces a fetch.
CompletenessStep ==
    (pc = "loop" /\ i <= Len(symbols))
    => /\ HoldsCompleteRange(cache, symbols[i], start_date, end_date) => TreatedAsComplete
       /\ ~HoldsCompleteRange(cache, symbols[i], start_date, end_date) => ForcesFetch

Completeness == [][CompletenessStep]_vars

\* ---- C9 ------------------------------------------------------------------
RowsOf(tbl, s) == {r \in tbl : r.symbol = s}

\* C9: a symbol whose processing fails leaves the cache as it was when its
\* iteration began, and the rows of a symbol change only in the step that
\* makes this symbol a success: no row of a failed batch becomes visible,
\* at once or with a later commit.
NoPartialState ==
    (pc = "loop" /\ i > 1 /\ ~Succeeded(symbols[i - 1])) => cache = before

NoPartialStep ==
    \A s \in Options :
        RowsOf(cache', s) # RowsOf(cache, s)
        => (pc = "after" /\ symbols[i] = s /\ SucceededIn(all_data', s))

NoPartialInsertion == [](NoPartialState) /\ [][NoPartialStep]_vars

\* the write of the first symbol failed at a row after the first, the
\* second symbol was fetched and committed, and the cache holds no row that
\* the program wrote for the first
NoPartialWitness ==
    /\ Returned
    /\ Len(symbols) = 2
    /\ Count(symbols[1], "OverflowError") = 1
    /\ Succeeded(symbols[2])
    /\ \E r \in RowsOf(cache, symbols[2]) : r.date = adapt_datetime(r.date[1])
    /\ \A r \in RowsOf(cache, symbols[1]) : r.date = strftime(r.date[1])

\* ---- C10 -----------------------------------------------------------------
\* at most one row per (symbol, date)
UniqueKeys ==
    \A r1 \in cache : \A r2 \in cache :
        (r1.symbol = r2.symbol /\ r1.date = r2.date) => r1 = r2

\* C10: the cache holds at most one row per (symbol, date); an upsert stores
\* every row of its batch under its key, in the place of the row that had
\* this key; upserting the same batch once more changes nothing.
IdempotentStep ==
    (pc = "after" /\ Valid(data))
    => LET df == DataFrame(symbols[i], data.rows)
           keys == {adapt_datetime(df[k].date[1]) : k \in 1..Len(df)}
       IN /\ \A k \in 1..Len(df) :
                Row(symbols[i], adapt_datetime(df[k].date[1]), df[k].val) \in cache'
          /\ \A r \in cache' : (r.symbol = symbols[i] /\ r.date \in keys) \/ r \in cache
          /\ \A r \in cache : (r.symbol = symbols[i] /\ r.date \in keys) \/ r \in cache'
          /\ to_sql(cache', df, 0).table = cache'

UpsertIdempotent == [](UniqueKeys) /\ [][IdempotentStep]_vars

\* an upsert has just replaced a row by a row with another value
UpsertWitness ==
    /\ pc = "loop"
    /\ i > 1
    /\ Succeeded(symbols[i - 1])
    /\ \E r \in cache : \E r0 \in before :
          r.symbol = r0.symbol /\ r.date = r0.date /\ r.val # r0.val

\* ---- C11 -----------------------------------------------------------------
\* the (symbol, date) keys of a table
Keys(tbl) == {<<r.symbol, r.date>> : r \in tbl}

\* the completeness check of fetch_stock_data for the symbol s and the range a..b
CheckIsTrue(tbl, s, a, b) ==
    CacheComplete(read_sql(tbl, s, strftime(a), strftime(b)), a, b)

\* C11: no step removes a (symbol, date) key from the cache, and a
\* completeness check that is true for a symbol and a range stays true after
\* every step.
MonotoneStep ==
    /\ Keys(cache) \subseteq Keys(cache')
    /\ \A s \in Options : \A a \in Days : \A b \in a..MaxDay :
          CheckIsTrue(cache, s, a, b) => CheckIsTrue(cache', s, a, b)

Monotone == [][MonotoneStep]_vars

\* the check is true for a symbol and a range of two days, and a later
\* call has upserted rows of this symbol
MonotoneWitness ==
    \E s \in Options :
        /\ CheckIsTrue(cache, s, 1, 2)
        /\ \E r \in cache : r.symbol = s /\ r.date = adapt_datetime(r.date[1])
        /\ Returned

\* ---- C12 -----------------------------------------------------------------
\* the payload holds an entry for every calendar day of a..b
Covers(d, a, b) == \A x \in a..b : \E k \in 1..Len(d.rows) : d.rows[k].day = x

\* C12: a row that is normalized and upserted for the day x is stored under
\* the date key that the cache read and the completeness check use; a read of
\* a range that contains x returns it with its value; and a payload that
\* covers every day of the requested range makes the check true for it.
RoundTripStep ==
    (pc = "after" /\ Valid(data))
    => /\ \A k \in 1..Len(data.rows) :
            /\ Row(symbols[i], strftime(data.rows[k].day), data.rows[k].val) \in cache'
            /\ \E r \in read_sql(cache', symbols[i], strftime(data.rows[k].day),
                                 strftime(data.rows[k].day)) :
                  r.val = data.rows[k].val
       /\ Covers(data, start_date, end_date)
             => CheckIsTrue(cache', symbols[i], start_date, end_date)

RoundTrip == [][RoundTripStep]_vars

\* ---- C13 -----------------------------------------------------------------
\* the (calendar day, value) pairs of a set of rows
DayVals(rows) == {<<r.date[1], r.val>> : r \in rows}

\* the (calendar day, value) pairs of the payload entries in the range a..b
PayloadInRange(d, a, b) ==
    {<<d.rows[k].day, d.rows[k].val>> :
        k \in {j \in 1..Len(d.rows) : a <= d.rows[j].day /\ d.rows[j].day <= b}}

\* C13 as stated: the rows returned for a fetched symbol are the rows that the
\* cache holds for the requested range after the upsert, rows of earlier
\* fetches included.
FetchEqualsCacheStep ==
    (pc = "after" /\ Valid(data))
    => DayVals(all_data'[symbols[i]])
          = DayVals(RowsOfRange(cache', symbols[i], start_date, end_date))

FetchEqualsCache == [][FetchEqualsCacheStep]_vars

\* C13 (amended): the rows returned for a fetched symbol are the entries of
\* the new payload in the requested range; each of them is in the cache when
\* the success is recorded; a write that raises records no success.
FetchResultStep ==
    /\ (pc = "after" /\ Valid(data))
          => /\ SucceededIn(all_data', symbols[i])
             /\ DayVals(all_data'[symbols[i]])
                   = PayloadInRange(data, start_date, end_date)
             /\ DayVals(all_data'[symbols[i]])
                   \subseteq DayVals(RowsOfRange(cache', symbols[i], start_date, end_date))
    /\ (pc = "after" /\ ExceptionOf(data) \in {"OperationalError", "OverflowError"})
          => ~SucceededIn(all_data', symbols[i])

FetchResult == [][FetchResultStep]_vars

\* a fetched symbol whose returned rows are some, not all, of the rows that
\* the cache holds for the requested range
FetchResultWitness ==
    /\ pc = "loop"
    /\ i > 1
    /\ Succeeded(symbols[i - 1])
    /\ requests[symbols[i - 1]] = 1
    /\ all_data[symbols[i - 1]] # {}
    /\ DayVals(all_data[symbols[i - 1]])
          # DayVals(RowsOfRange(cache, symbols[i - 1], start_date, end_date))

\* ---- C14 -----------------------------------------------------------------
\* sub occurs in s at the position p
OccursAt(s, sub, p) ==
    /\ p + Len(sub) - 1 <= Len(s)
    /\ \A j \in 1..Len(sub) : s[p + j - 1] = sub[j]

HasSub(s, sub) == \E p \in 1..Len(s) : OccursAt(s, sub, p)

\* the positions of s outside every occurrence of "-USD"
Kept(s) ==
    {q \in 1..Len(s) :
        ~\E p \in 1..Len(s) :
            OccursAt(s, <<"-", "U", "S", "D">>, p) /\ p <= q /\ q <= p + 3}

\* s with every occurrence of "-USD" removed
WithoutDashUSD(s) ==
    [k \in 1..Cardinality(Kept(s)) |->
        s[CHOOSE p \in Kept(s) : Cardinality({q \in Kept(s) : q <= p}) = k]]

\* C14: the request of a symbol is determined by the symbol string alone:
\* with "USD" in it the symbol is crypto (base symbol without "-USD", market
\* USD), also when "EUR" is in it; with "EUR" and without "USD" it is forex;
\* any other symbol is an equity with the adjusted daily series and
\* outputsize=full.
ClassifyStep ==
    (pc = "loop" /\ pc' = "request")
    => LET s == symbols[i]
           usd == HasSub(s, <<"U", "S", "D">>)
           eur == HasSub(s, <<"E", "U", "R">>)
       IN /\ usd => /\ url'.function = "DIGITAL_CURRENCY_DAILY"
                    /\ url'.symbol = WithoutDashUSD(s)
                    /\ url'.market = "USD"
          /\ (eur /\ ~usd) => (url'.function = "FX_DAILY" /\ url'.symbol = s)
          /\ (~eur /\ ~usd) => /\ url'.function = "TIME_SERIES_DAILY_ADJUSTED"
                               /\ url'.symbol = s
                               /\ url'.outputsize = "full"

Classification == [][ClassifyStep]_vars

\* the request of a symbol with "EUR" and "-USD" in it, classified as crypto
ClassificationWitness ==
    /\ pc = "request"
    /\ HasSub(symbols[i], <<"E", "U", "R">>)
    /\ HasSub(symbols[i], <<"-", "U", "S", "D">>)
    /\ url.function = "DIGITAL_CURRENCY_DAILY"
    /\ Len(url.symbol) = Len(symbols[i]) - 4

\* ---- C15 -----------------------------------------------------------------
\* the number of notifications that name the symbol s
NoticesOf(s) == Cardinality({n \in 1..Len(notes) : notes[n].symbol = s})

\* the step reports one error: the symbol s (none for the batch) and the cause c
Reports(s, c) == notes' = Append(notes, Notice(s, c))

\* C15 as stated: every failed symbol has exactly one notification.
NotifiedOnce ==
    \A k \in 1..Len(symbols) :
        (Processed(k) /\ ~Succeeded(symbols[k])) => NoticesOf(symbols[k]) = 1

\* C15 (amended): every detected error is reported by one notification in the
\* step that detects it: each rate-limited response, each hard-error
\* response, the exception of a request or of the processing, and the batch
\* without any success; no other step notifies.  So a failed symbol has at
\* least one notification and at most three, and a symbol that recovers from a
\* rate limit is a success with up to two.
ReportStep ==
    /\ (pc = "request" /\ pc' = "loop") => Reports(symbols[i], "ConnectionError")
    /\ (pc = "request" /\ pc' # "loop" /\ SoftSignal(data'))
          => Reports(symbols[i], "rate limit")
    /\ (pc = "request" /\ pc' # "loop" /\ HardSignal(data'))
          => Reports(symbols[i], "API error")
    /\ (pc = "request" /\ pc' # "loop" /\ ~data'.hasNote /\ ~data'.hasErr)
          => notes' = notes
    /\ (pc = "after" /\ (data.hasNote \/ data.hasErr)) => notes' = notes
    /\ (pc = "after" /\ ~data.hasNote /\ ~data.hasErr /\ ~Valid(data))
          => /\ ExceptionOf(data) # ""
             /\ Reports(symbols[i], ExceptionOf(data))
    /\ (pc = "after" /\ Valid(data)) => notes' = notes
    /\ (pc = "loop" /\ pc' # "idle") => notes' = notes
    /\ (pc = "loop" /\ pc' = "idle" /\ DOMAIN all_data = {}) => Reports(<<>>, "no data")
    /\ (pc = "loop" /\ pc' = "idle" /\ DOMAIN all_data # {}) => notes' = notes

ReportCount ==
    \A k \in 1..Len(symbols) :
        /\ (Processed(k) /\ ~Succeeded(symbols[k]))
              => (1 <= NoticesOf(symbols[k]) /\ NoticesOf(symbols[k]) <= 3)
        /\ Succeeded(symbols[k]) => NoticesOf(symbols[k]) <= 2

ReportEach == [](ReportCount) /\ [][ReportStep]_vars

\* a symbol that failed after two rate-limited responses and a hard error has
\* three notifications, and the batch without a success has one more
ReportEachWitness ==
    /\ Returned
    /\ result = None
    /\ Len(symbols) = 1
    /\ Count(symbols[1], "rate limit") = 2
    /\ Count(symbols[1], "API error") = 1
    /\ Count(<<>>, "no data") = 1
    /\ Len(notes) = 4

\* ---- C16 -----------------------------------------------------------------
\* the row belongs to the symbol s and to a day of the requested range
InRequestedRange(r, s) ==
    /\ r.symbol = s
    /\ start_date <= r.date[1]
    /\ r.date[1] <= end_date

\* C16: every row of every success, from the cache or from the network, and
\* every row of the returned table belongs to its requested symbol and to
\* the requested range; the upsert stores every entry of the payload, in the
\* range or not.
RangeRestrictedState ==
    /\ \A s \in DOMAIN all_data :
          /\ \E k \in 1..Len(symbols) : symbols[k] = s
          /\ \A r \in all_data[s] : InRequestedRange(r, s)
    /\ \A r \in result.table :
          \E k \in 1..Len(symbols) : InRequestedRange(r, symbols[k])

RangeRestrictedStep ==
    (pc = "after" /\ Valid(data))
    => \A k \in 1..Len(data.rows) :
          \E r \in cache' : /\ r.symbol = symbols[i]
                            /\ r.date[1] = data.rows[k].day
                            /\ r.val = data.rows[k].val

RangeRestricted == [](RangeRestrictedState) /\ [][RangeRestrictedStep]_vars

\* one success from the cache and one from the network, both with rows; the
\* fetch has cached a row after the range that is in no success
RangeRestrictedWitness ==
    /\ Returned
    /\ Len(symbols) = 2
    /\ Succeeded(symbols[1]) /\ requests[symbols[1]] = 0 /\ all_data[symbols[1]] # {}
    /\ Succeeded(symbols[2]) /\ requests[symbols[2]] = 1 /\ all_data[symbols[2]] # {}
    /\ \E r \in cache : /\ r.symbol = symbols[2]
                        /\ r.date = adapt_datetime(r.date[1])
                        /\ r.date[1] > end_date
    /\ result.kind = "DataFrame"

\* ---- C17 -----------------------------------------------------------------
\* the notifications of the two checks of the refresh handler
ValidationNotices ==
    {Notice(<<>>, "no symbol selected"), Notice(<<>>, "start date not before end date")}

\* C17: a click either calls fetch_stock_data with a non-empty symbol list
\* and a start date before the end date, or emits one notification of a
\* failed check and changes nothing else: no call, no request, no write.
CallerStep ==
    clicks' # clicks
    => \/ /\ pc' = "loop"
          /\ symbols' # <<>>
          /\ start_date' < end_date'
          /\ cache' = cache
       \/ /\ pc' = "idle"
          /\ \E n \in ValidationNotices : notes' = Append(notes, n)
          /\ UNCHANGED <<cache, symbols, start_date, end_date, i, all_data, url,
                         attempt, data, requests, sleeps, result, before>>

\* every call in progress or made has a non-empty list and start < end
CallerState ==
    (pc # "idle" \/ Started) => (symbols # <<>> /\ start_date < end_date)

CallerPrecondition == [](CallerState) /\ [][CallerStep]_vars

\* a click with the start date not before the end date after a call that
\* wrote rows: one notification more, and the call's values are as they were
CallerPreconditionWitness ==
    /\ pc = "idle"
    /\ clicks = 2
    /\ Started
    /\ result.kind = "DataFrame"
    /\ Len(notes) >= 1
    /\ notes[Len(notes)] = Notice(<<>>, "start date not before end date")

\* ---- C18 -----------------------------------------------------------------
\* the current symbol was answered by one or two rate-limit signals and then
\* by a response without a signal
Recovered ==
    /\ pc = "after"
    /\ ~data.hasNote /\ ~data.hasErr
    /\ Count(symbols[i], "rate limit") \in {1, 2}
    /\ requests[symbols[i]] = Count(symbols[i], "rate limit") + 1

\* C18: a rate-limited first or second response is followed by another
\* attempt; when a later response carries no signal, this last payload is the
\* one normalized and upserted and the symbol is a success; whether a symbol
\* is a success after the loop depends on the last response alone.
RecoveryStep ==
    /\ (pc = "request" /\ pc' # "loop" /\ SoftSignal(data') /\ attempt + 1 < 3)
          => (pc' = "request" /\ i' = i)
    /\ (Recovered /\ Valid(data))
          => /\ SucceededIn(all_data', symbols[i])
             /\ DayVals(all_data'[symbols[i]])
                   = PayloadInRange(data, start_date, end_date)
             /\ \A k \in 1..Len(data.rows) :
                   Row(symbols[i], adapt_datetime(data.rows[k].day), data.rows[k].val)
                       \in cache'
    /\ pc = "after" => (SucceededIn(all_data', symbols[i]) <=> Valid(data))

Recovery == [][RecoveryStep]_vars

\* a symbol that is a success with rows after two rate-limited responses
RecoveryWitness ==
    \E s \in Finished :
        /\ Succeeded(s)
        /\ requests[s] = 3
        /\ Count(s, "rate limit") = 2
        /\ all_data[s] # {}
        /\ \E r \in cache : r.symbol = s /\ r.date = adapt_datetime(r.date[1])

\* ---- C19 -----------------------------------------------------------------
\* a call of fetch_stock_data in progress returns
Terminates == (pc # "idle") ~> (pc = "idle" /\ result.kind # "pending")

\* every request of the program is answered, by a response or by an exception
EveryRequestAnswered == WF_vars(Request)

\* the requests of the current call, all symbols together
RECURSIVE TotalRequests(_)
TotalRequests(S) ==
    IF S = {} THEN 0
    ELSE LET s == CHOOSE x \in S : TRUE
         IN requests[s] + TotalRequests(S \ {s})

\* the symbols are processed one at a time, in the order of the list: the
\* position moves by one, and requests and successes are those of the symbol
\* at the position
InOrderStep ==
    pc # "idle"
    => /\ symbols' = symbols
       /\ i' = i \/ i' = i + 1
       /\ pc' = "idle" => i = Len(symbols) + 1
       /\ \A s \in Options :
             /\ requests'[s] # requests[s]
                   => (i <= Len(symbols) /\ s = symbols[i] /\ requests'[s] = requests[s] + 1)
             /\ (SucceededIn(all_data', s) /\ ~Succeeded(s))
                   => (i <= Len(symbols) /\ s = symbols[i] /\ i' = i + 1)

RequestBudget == TotalRequests(Options) <= 3 * Len(symbols)

\* C19 as stated: the call returns whatever the remote API does.
Termination ==
    Terminates /\ [][InOrderStep]_vars /\ [](RequestBudget)

\* C19 (amended): when every request is answered, the call returns; the
\* symbols are processed one at a time in list order, with at most 3 requests
\* per symbol of the list in total.
TerminationIfAnswered ==
    /\ EveryRequestAnswered => Terminates
    /\ [][InOrderStep]_vars
    /\ [](RequestBudget)

\* a call with two symbols has returned after 3 requests for each of them
TerminationWitness ==
    /\ Returned
    /\ Len(symbols) = 2
    /\ TotalRequests(Options) = 6
    /\ result = None

====
